---------------------------- MODULE Spec2Model ----------------------------
(***************************************************************************)
(* The prize-inventory ledger of the spin-wheel backend.                   *)
(*                                                                         *)
(* State: the product_inventory table (one row per (agent_id, product_id)  *)
(* pair), the spin_results table, and a fixed number of HTTP request       *)
(* handlers.  Every handler is an async function whose statements run on   *)
(* the shared mysql2 pool (req.db = pool, src/api/server.js:79-82), so     *)
(* each SQL statement is its own autocommitted step and other handlers     *)
(* may run between two awaits of one handler.  An action of the model is   *)
(* one such step: the statement that executes plus the synchronous code    *)
(* that follows it up to the next await or the response.                   *)
(***************************************************************************)
EXTENDS Integers, Sequences, FiniteSets, TLC

NumReqs == 2     \* request handlers of a run
MaxQty == 2      \* stored quantities are kept within -1..MaxQty
MaxSpins == 2    \* rows the spin_results table may hold
MaxRecords == 1  \* inventory records provisioned at the start
PoolSize == 2    \* connections of the pool (connectionLimit, 10 in server.js)
MaxProducts == 4 \* product_inventory rows of one agent
MaxDays == 2     \* days the clock of the metrics processor runs through
MaxBuckets == 2  \* documents the metrics collection may hold

Reqs == 1..NumReqs

\* The (agent_id, product_id) pairs of the model; a record's id stands for
\* its pair.  "" is a request that leaves product_id or agent_id out.
Pairs == {"p1", "p2"}
NoPair == ""
PairInputs == Pairs \cup {NoPair}

\* An optional number of a JSON body: <<>> when the field is absent.
undefined == <<>>
Some(x) == <<x>>
Val(v) == v[1]
\* JavaScript's !v for a number or undefined.
Falsy(v) == v = undefined \/ v = Some(0)

InRange(x) == x + 1 >= 0 /\ x <= MaxQty

\* copies counts the rows the table holds for the pair: the routes select
\* by (agent_id, product_id) and use the first row, whose columns these are.
NoRow == [exists |-> FALSE, copies |-> 0, total_quantity |-> 0,
          available_quantity |-> 0, distributed_quantity |-> 0]
Row(t, a, d) == [exists |-> TRUE, copies |-> 1, total_quantity |-> t,
                 available_quantity |-> a, distributed_quantity |-> d]

\* Rows present before the server starts: the schema holds no
\* product_inventory DDL, so records are provisioned outside these routes,
\* in the state assignment is meant to produce (nothing distributed yet).
SeedRows == {NoRow} \cup {Row(t, t, 0) : t \in 0..MaxQty}

QuantityInputs == {undefined, Some(-1), Some(0), Some(1), Some(MaxQty)}
PutInputs == {undefined, Some(-1), Some(0), Some(MaxQty)}
DbOutcomes == {"ok", "timeout", "error"}

VARIABLES
  inv,           \* product_inventory: pair -> row
  spin_results,  \* spin_results: the rows in insertion order
  pc,            \* per handler: where it is suspended
  loc,           \* per handler: its local variables while in flight
  resp           \* per handler: the response it sent last

\* The parts of the system around the ledger; each has its own section below.
VARIABLES
  page,          \* the Index page of the player's browser
  tx,            \* one run of the transactional POST /spin-results handler
  pool,          \* the mysql2 pool and the spin-results requests that use it
  wheel,         \* the SpinWheel component
  metrics,       \* the hourly metrics processor, its clock and its store
  config         \* one GET /prize-distribution/current-wheel request

ledger == <<inv, spin_results, pc, loc, resp>>
vars == <<inv, spin_results, pc, loc, resp, page, tx, pool, wheel, metrics, config>>

\* The state of each part before it has done anything.
NoPrize == [label |-> NoPair, isWin |-> FALSE]
NoPage == [userData |-> "null", showSpinner |-> FALSE, prizeWon |-> NoPrize,
           showWinModal |-> FALSE, isLoading |-> FALSE, fetch |-> "none",
           payload |-> NoPrize, attempts |-> 0, toast |-> ""]
NoBody == [valid |-> FALSE, is_win |-> FALSE, pair |-> NoPair]
NoTx == [pc |-> "idle", db |-> "", body |-> NoBody, begun |-> FALSE,
         open |-> FALSE, reserved |-> FALSE, inserted |-> FALSE,
         commits |-> 0, rollbacks |-> 0, responses |-> 0, status |-> 0]
NoPool == [free |-> PoolSize, abandoned |-> 0, lost |-> 0,
           at |-> [r \in Reqs |-> "idle"], route |-> [r \in Reqs |-> ""],
           status |-> [r \in Reqs |-> 0]]
NoWheel == [isSpinning |-> FALSE, wheelCanvas |-> "null", currentRotation |-> 0,
            timers |-> <<>>, prize |-> NoPrize]
NoMetrics == [now |-> [day |-> 1, hour |-> 0], stored |-> {}]
NoConfig == [products |-> <<>>, status |-> 0, available_products |-> <<>>,
             win_sectors |-> 0, try_again_sectors |-> 0, total_sectors |-> 0,
             win_percentage |-> 0]
Quiet ==
  /\ page = NoPage
  /\ tx = NoTx
  /\ pool = NoPool
  /\ wheel = NoWheel
  /\ metrics = NoMetrics
  /\ config = NoConfig

\* Of the row a handler read, item keeps the columns it uses afterwards.
NoLoc == [pair |-> NoPair, quantity |-> undefined, total_quantity |-> undefined,
          available_quantity |-> undefined, item |-> NoRow]
NoResp == [op |-> "none", pair |-> NoPair, status |-> 0, message |-> ""]
Response(op, p, status, message) ==
  [op |-> op, pair |-> p, status |-> status, message |-> message]

Init ==
  /\ inv \in [Pairs -> SeedRows]
  /\ Cardinality({p \in Pairs : inv[p].exists}) <= MaxRecords
  /\ spin_results = <<>>
  /\ pc = [r \in Reqs |-> "idle"]
  /\ loc = [r \in Reqs |-> NoLoc]
  /\ resp = [r \in Reqs |-> NoResp]
  /\ Quiet

\* res.status(..).json(..): the handler ends.
Reply(r, response) ==
  /\ resp' = [resp EXCEPT ![r] = response]
  /\ pc' = [pc EXCEPT ![r] = "idle"]
  /\ loc' = [loc EXCEPT ![r] = NoLoc]
  /\ UNCHANGED <<page, tx, pool, wheel, metrics, config>>

\* The handler suspends at an await with its locals.
Await(r, at, locals) ==
  /\ pc' = [pc EXCEPT ![r] = at]
  /\ loc' = [loc EXCEPT ![r] = locals]
  /\ resp' = [resp EXCEPT ![r] = NoResp]
  /\ UNCHANGED <<page, tx, pool, wheel, metrics, config>>

(***************************************************************************)
(* POST /inventory (assign).                                               *)
(***************************************************************************)
\* The INSERT names 8 columns and supplies 5 values (4 placeholders and a
\* literal 0); MySQL rejects a statement whose counts differ.
InsertColumns == 8
InsertValues == 5
InsertAlwaysAccepted == TRUE
InsertAccepted == InsertColumns = InsertValues

\* The handler without its existence test.
AssignCheckNoExistenceTest(r, p, tq) ==
  /\ pc[r] = "idle"
  /\ UNCHANGED <<inv, spin_results>>
  /\ IF p = NoPair \/ Falsy(tq)
       THEN Reply(r, Response("assign", p, 400, "All fields are required"))
     ELSE Await(r, "assign_insert", [NoLoc EXCEPT !.pair = p, !.total_quantity = tq])

\* Validation, then the existence SELECT.
AssignCheck(r, p, tq) ==
  /\ pc[r] = "idle"
  /\ UNCHANGED <<inv, spin_results>>
  /\ IF p = NoPair \/ Falsy(tq)
       THEN Reply(r, Response("assign", p, 400, "All fields are required"))
     ELSE IF inv[p].exists
       THEN Reply(r, Response("assign", p, 400, "Inventory item already exists"))
     ELSE Await(r, "assign_insert", [NoLoc EXCEPT !.pair = p, !.total_quantity = tq])

\* The INSERT, then the response (201 with the new row, or the catch's 500).
\* An accepted INSERT adds a row whether or not the pair has one: the
\* statement carries no duplicate clause and the schema declares no key.
AssignInsert(r) ==
  /\ pc[r] = "assign_insert"
  /\ UNCHANGED spin_results
  /\ LET p == loc[r].pair
         tq == loc[r].total_quantity
     IN IF InsertAccepted
          THEN /\ inv' = [inv EXCEPT ![p] =
                                IF @.exists THEN [@ EXCEPT !.copies = @ + 1]
                                            ELSE Row(Val(tq), Val(tq), 0)]
               /\ Reply(r, Response("assign", p, 201, "created"))
          ELSE /\ UNCHANGED inv
               /\ Reply(r, Response("assign", p, 500, "Error creating inventory item"))

(***************************************************************************)
(* PUT /inventory/:id (adjust).                                            *)
(***************************************************************************)
\* (total_quantity || existing[0].total_quantity) - available_quantity
NewDistributed(tq, aq, existing) ==
  (IF Falsy(tq) THEN existing.total_quantity ELSE Val(tq)) - Val(aq)

\* The row after the UPDATE built from the fields the body defines.
PutRow(row, tq, aq, existing) ==
  [row EXCEPT
     !.total_quantity = IF tq # undefined THEN Val(tq) ELSE @,
     !.available_quantity = IF aq # undefined THEN Val(aq) ELSE @,
     !.distributed_quantity =
        IF aq # undefined THEN NewDistributed(tq, aq, existing) ELSE @]

\* What the handler reads of existing[0] later on: its total_quantity, when
\* the body sets available_quantity and no truthy total_quantity.
Existing(row, tq, aq) ==
  IF aq # undefined /\ Falsy(tq)
    THEN [NoRow EXCEPT !.total_quantity = row.total_quantity]
    ELSE NoRow

\* The SELECT of the existing row; 404, or 400 when no field is given
\* (agent_name and location, the other fields, are the flag meta).
PutSelect(r, id, tq, aq, meta) ==
  /\ pc[r] = "idle"
  /\ UNCHANGED <<inv, spin_results>>
  /\ IF ~inv[id].exists
       THEN Reply(r, Response("adjust", id, 404, "Inventory item not found"))
     ELSE IF tq = undefined /\ aq = undefined /\ ~meta
       THEN Reply(r, Response("adjust", id, 400, "No fields to update"))
     ELSE Await(r, "put_update",
                [NoLoc EXCEPT !.pair = id, !.total_quantity = tq,
                              !.available_quantity = aq,
                              !.item = Existing(inv[id], tq, aq)])

\* The UPDATE ... WHERE id = ?, then the response (the SELECT that follows
\* only fills the response body, which the model does not keep).
PutUpdate(r) ==
  /\ pc[r] = "put_update"
  /\ UNCHANGED spin_results
  /\ LET l == loc[r]
         new == PutRow(inv[l.pair], l.total_quantity, l.available_quantity, l.item)
     IN /\ InRange(new.distributed_quantity)
        /\ inv' = [inv EXCEPT ![l.pair] = new]
        /\ Reply(r, Response("adjust", l.pair, 200, "updated"))

(***************************************************************************)
(* POST /inventory/distribute (reserve).                                   *)
(***************************************************************************)
\* const { quantity = 1 } = req.body
DistributeQuantity(q) == IF q = undefined THEN 1 ELSE Val(q)

\* if (item.available_quantity < quantity): the insufficient-stock test.
Insufficient(item, quantity) == item.available_quantity < quantity

\* Validation and the SELECT of the current row, with its rejections.
DistributeSelect(r, p, q) ==
  /\ pc[r] = "idle"
  /\ UNCHANGED <<inv, spin_results>>
  /\ LET quantity == DistributeQuantity(q)
     IN IF p = NoPair
          THEN Reply(r, Response("distribute", p, 400,
                                 "product_id and agent_id are required"))
        ELSE IF ~inv[p].exists
          THEN Reply(r, Response("distribute", p, 404,
                                 "Inventory item not found"))
        ELSE IF Insufficient(inv[p], quantity)
          THEN Reply(r, Response("distribute", p, 400,
                                 "Insufficient stock"))
        ELSE Await(r, "distribute_update",
                   [NoLoc EXCEPT !.pair = p, !.quantity = Some(quantity),
                                 !.item = [inv[p] EXCEPT !.total_quantity = 0]])

\* The handler with an UPDATE that leaves out WHERE id = ?.
DistributeUpdateEveryRow(r) ==
  /\ pc[r] = "distribute_update"
  /\ UNCHANGED spin_results
  /\ LET l == loc[r]
         newAvailable == l.item.available_quantity - Val(l.quantity)
         newDistributed == l.item.distributed_quantity + Val(l.quantity)
     IN /\ InRange(newAvailable) /\ InRange(newDistributed)
        /\ inv' = [p \in Pairs |->
                     IF inv[p].exists
                       THEN [inv[p] EXCEPT !.available_quantity = newAvailable,
                                           !.distributed_quantity = newDistributed]
                       ELSE inv[p]]
        /\ Reply(r, Response("distribute", l.pair, 200, "success"))

\* The UPDATE writes the values computed from the row read earlier.
DistributeUpdate(r) ==
  /\ pc[r] = "distribute_update"
  /\ UNCHANGED spin_results
  /\ LET l == loc[r]
         newAvailable == l.item.available_quantity - Val(l.quantity)
         newDistributed == l.item.distributed_quantity + Val(l.quantity)
     IN /\ InRange(newAvailable) /\ InRange(newDistributed)
        /\ inv' = [inv EXCEPT ![l.pair].available_quantity = newAvailable,
                              ![l.pair].distributed_quantity = newDistributed]
        /\ Reply(r, Response("distribute", l.pair, 200, "success"))

(***************************************************************************)
(* POST /inventory/restock.                                                *)
(***************************************************************************)
\* if (!product_id || !agent_id || !quantity)
RestockRejected(p, q) == p = NoPair \/ Falsy(q)

RestockSelect(r, p, q) ==
  /\ pc[r] = "idle"
  /\ UNCHANGED <<inv, spin_results>>
  /\ IF RestockRejected(p, q)
       THEN Reply(r, Response("restock", p, 400,
                              "product_id, agent_id, and quantity are required"))
     ELSE IF ~inv[p].exists
       THEN Reply(r, Response("restock", p, 404, "Inventory item not found"))
     ELSE Await(r, "restock_update",
                [NoLoc EXCEPT !.pair = p, !.quantity = q,
                              !.item = [inv[p] EXCEPT !.distributed_quantity = 0]])

RestockUpdate(r) ==
  /\ pc[r] = "restock_update"
  /\ UNCHANGED spin_results
  /\ LET l == loc[r]
         newAvailable == l.item.available_quantity + Val(l.quantity)
         newTotal == l.item.total_quantity + Val(l.quantity)
     IN /\ InRange(newAvailable) /\ InRange(newTotal)
        /\ inv' = [inv EXCEPT ![l.pair].available_quantity = newAvailable,
                              ![l.pair].total_quantity = newTotal]
        /\ Reply(r, Response("restock", l.pair, 200, "success"))

(***************************************************************************)
(* POST /inventory/check-stock.                                            *)
(***************************************************************************)
\* res.json({ available, quantity, product_name })
StockResponse(p, available, quantity) ==
  [op |-> "check-stock", pair |-> p, status |-> 200, message |-> "",
   available |-> available, quantity |-> quantity]

\* The handler with a SELECT that leaves out AND available_quantity > 0.
CheckStockAnyRow(r, p) ==
  /\ pc[r] = "idle"
  /\ UNCHANGED <<inv, spin_results>>
  /\ IF p = NoPair
       THEN Reply(r, Response("check-stock", p, 400,
                              "product_id and agent_id are required"))
     ELSE IF ~inv[p].exists
       THEN Reply(r, StockResponse(p, FALSE, 0))
     ELSE Reply(r, StockResponse(p, TRUE, inv[p].available_quantity))

\* Validation, the SELECT ... AND available_quantity > 0, the response.
CheckStock(r, p) ==
  /\ pc[r] = "idle"
  /\ UNCHANGED <<inv, spin_results>>
  /\ IF p = NoPair
       THEN Reply(r, Response("check-stock", p, 400,
                              "product_id and agent_id are required"))
     ELSE IF ~(inv[p].exists /\ inv[p].available_quantity > 0)
       THEN Reply(r, StockResponse(p, FALSE, 0))
     ELSE Reply(r, StockResponse(p, TRUE, inv[p].available_quantity))

(***************************************************************************)
(* POST /spin-results.                                                     *)
(***************************************************************************)
\* src/api/routes: validate, take a pool connection, INSERT the row.  The
\* body carries agent_name and prize; no inventory statement is issued.
\* Its awaits (getConnection, SELECT 1, INSERT) touch spin_results alone, by
\* one appended row, so they are taken as one step; db is their outcome.
SpinPost(r, p, w, db) ==
  /\ pc[r] = "idle"
  /\ UNCHANGED inv
  /\ IF p = NoPair
       THEN /\ UNCHANGED spin_results
            /\ Reply(r, Response("spin", p, 400, "required fields are missing"))
     ELSE IF db = "timeout"
       THEN /\ UNCHANGED spin_results
            /\ Reply(r, Response("spin", p, 503, "Database connection timeout"))
     ELSE IF db = "error"
       THEN /\ UNCHANGED spin_results
            /\ Reply(r, Response("spin", p, 500, "Internal server error"))
     ELSE /\ Len(spin_results) < MaxSpins
          /\ spin_results' = Append(spin_results, [pair |-> p, is_win |-> w])
          /\ Reply(r, Response("spin", p, 201, "Spin result recorded successfully"))

\* What the injected req.db offers: the pool of mysql.createPool.
PoolMethods == {"getConnection", "query", "execute", "end"}

\* The backend variant: const connection = req.db, then
\* connection.beginTransaction().  req.db is the pool (the same router calls
\* req.db.getConnection()), which has no beginTransaction: the call throws a
\* TypeError, the catch calls connection.rollback(), which throws again, and
\* the handler ends without a statement executed or a response sent.
TxSpinPost(r, p, w) ==
  /\ pc[r] = "idle"
  /\ "beginTransaction" \notin PoolMethods
  /\ "rollback" \notin PoolMethods
  /\ UNCHANGED <<inv, spin_results>>
  /\ Reply(r, Response("tx_spin", p, 0, "no response"))

(***************************************************************************)
(* Specifications.                                                         *)
(***************************************************************************)
\* A handler that has served no request yet.
Fresh(r) == pc[r] = "idle" /\ resp[r] = NoResp

\* NumReqs requests arrive at any time, one per handler, and the handlers
\* interleave at their awaits.
Next ==
  \E r \in Reqs :
    \/ \E p \in PairInputs, tq \in PutInputs : Fresh(r) /\ AssignCheck(r, p, tq)
    \/ \E id \in Pairs, tq \in PutInputs, aq \in PutInputs, meta \in BOOLEAN :
         Fresh(r) /\ PutSelect(r, id, tq, aq, meta)
    \/ \E p \in PairInputs, q \in QuantityInputs : Fresh(r) /\ DistributeSelect(r, p, q)
    \/ \E p \in PairInputs, q \in QuantityInputs : Fresh(r) /\ RestockSelect(r, p, q)
    \/ \E p \in PairInputs, w \in BOOLEAN, db \in DbOutcomes :
         Fresh(r) /\ SpinPost(r, p, w, db)
    \/ \E p \in PairInputs, w \in BOOLEAN : Fresh(r) /\ TxSpinPost(r, p, w)
    \/ AssignInsert(r)
    \/ PutUpdate(r)
    \/ DistributeUpdate(r)
    \/ RestockUpdate(r)
Spec == Init /\ [][Next]_vars

\* One client sends request after request, each once the previous one is
\* answered: no two handlers overlap, and the run has no bound on its length.
Client == CHOOSE r \in Reqs : \A s \in Reqs : r <= s
SeqNext ==
  \/ \E p \in PairInputs, tq \in PutInputs : AssignCheck(Client, p, tq)
  \/ \E id \in Pairs, tq \in PutInputs, aq \in PutInputs, meta \in BOOLEAN :
       PutSelect(Client, id, tq, aq, meta)
  \/ \E p \in PairInputs, q \in QuantityInputs : DistributeSelect(Client, p, q)
  \/ \E p \in PairInputs, q \in QuantityInputs : RestockSelect(Client, p, q)
  \/ \E p \in PairInputs, w \in BOOLEAN, db \in DbOutcomes : SpinPost(Client, p, w, db)
  \/ \E p \in PairInputs, w \in BOOLEAN : TxSpinPost(Client, p, w)
  \/ AssignInsert(Client)
  \/ PutUpdate(Client)
  \/ DistributeUpdate(Client)
  \/ RestockUpdate(Client)
SeqSpec == Init /\ [][SeqNext]_vars

\* Every client sends one single-unit winning reserve request, all at once.
RaceNext ==
  \E r \in Reqs :
    \/ \E p \in Pairs : Fresh(r) /\ DistributeSelect(r, p, undefined)
    \/ \E p \in Pairs, db \in DbOutcomes : Fresh(r) /\ SpinPost(r, p, TRUE, db)
    \/ \E p \in Pairs : Fresh(r) /\ TxSpinPost(r, p, TRUE)
    \/ DistributeUpdate(r)
RaceSpec == Init /\ [][RaceNext]_vars

\* Every client sends one reserve request, with any body, all at once.
ReserveNext ==
  \E r \in Reqs :
    \/ \E p \in PairInputs, q \in QuantityInputs : Fresh(r) /\ DistributeSelect(r, p, q)
    \/ \E p \in PairInputs, w \in BOOLEAN, db \in DbOutcomes :
         Fresh(r) /\ SpinPost(r, p, w, db)
    \/ \E p \in PairInputs, w \in BOOLEAN : Fresh(r) /\ TxSpinPost(r, p, w)
    \/ DistributeUpdate(r)
ReserveSpec == Init /\ [][ReserveNext]_vars

\* Every client sends one POST /inventory, and the handlers interleave
\* between the existence check and the INSERT.
AssignNext ==
  \E r \in Reqs :
    \/ \E p \in PairInputs, tq \in PutInputs : Fresh(r) /\ AssignCheck(r, p, tq)
    \/ AssignInsert(r)
AssignSpec == Init /\ [][AssignNext]_vars

\* The admin surface: every client sends one POST /inventory or one
\* PUT /inventory/:id, and the handlers interleave at their awaits.
AdminNext ==
  \E r \in Reqs :
    \/ \E p \in PairInputs, tq \in PutInputs : Fresh(r) /\ AssignCheck(r, p, tq)
    \/ \E id \in Pairs, tq \in PutInputs, aq \in PutInputs, meta \in BOOLEAN :
         Fresh(r) /\ PutSelect(r, id, tq, aq, meta)
    \/ AssignInsert(r)
    \/ PutUpdate(r)
AdminSpec == Init /\ [][AdminNext]_vars

\* Restock quantities that are positive, and the PUT bodies that set
\* available_quantity alone or with a non-zero total_quantity.
PositiveQuantities == {q \in QuantityInputs : q # undefined /\ Val(q) > 0}
AdjustTotals == {undefined, Some(MaxQty)}
AdjustAvailables == {Some(0), Some(MaxQty)}

\* An adjust, a positive restock and a single-unit distribute, one request
\* per client, interleave at their awaits.
MixNext ==
  \E r \in Reqs :
    \/ \E id \in Pairs, tq \in AdjustTotals, aq \in AdjustAvailables :
         Fresh(r) /\ PutSelect(r, id, tq, aq, FALSE)
    \/ \E p \in Pairs, q \in PositiveQuantities : Fresh(r) /\ RestockSelect(r, p, q)
    \/ \E p \in Pairs : Fresh(r) /\ DistributeSelect(r, p, undefined)
    \/ PutUpdate(r)
    \/ DistributeUpdate(r)
    \/ RestockUpdate(r)
MixSpec == Init /\ [][MixNext]_vars

\* Stock checks among distribute and restock requests, one per client.
StockNext ==
  \E r \in Reqs :
    \/ \E p \in PairInputs : Fresh(r) /\ CheckStock(r, p)
    \/ \E p \in Pairs, q \in QuantityInputs : Fresh(r) /\ DistributeSelect(r, p, q)
    \/ \E p \in Pairs, q \in QuantityInputs : Fresh(r) /\ RestockSelect(r, p, q)
    \/ DistributeUpdate(r)
    \/ RestockUpdate(r)
StockSpec == Init /\ [][StockNext]_vars

\* Both pairs have a record, and every client sends one single-unit
\* reserve, one positive restock or one adjust.
FrameInit ==
  /\ inv \in [Pairs -> SeedRows \ {NoRow}]
  /\ spin_results = <<>>
  /\ pc = [r \in Reqs |-> "idle"]
  /\ loc = [r \in Reqs |-> NoLoc]
  /\ resp = [r \in Reqs |-> NoResp]
  /\ Quiet
FrameNext ==
  \E r \in Reqs :
    \/ \E id \in Pairs, tq \in AdjustTotals, aq \in AdjustAvailables \cup {undefined} :
         Fresh(r) /\ PutSelect(r, id, tq, aq, TRUE)
    \/ \E p \in Pairs, q \in PositiveQuantities : Fresh(r) /\ RestockSelect(r, p, q)
    \/ \E p \in Pairs : Fresh(r) /\ DistributeSelect(r, p, undefined)
    \/ \E p \in Pairs : Fresh(r) /\ SpinPost(r, p, TRUE, "ok")
    \/ PutUpdate(r)
    \/ DistributeUpdate(r)
    \/ RestockUpdate(r)
FrameSpec == FrameInit /\ [][FrameNext]_vars

(***************************************************************************)
(* The Index page: form, wheel, winner modal, and the POST of the result.  *)
(***************************************************************************)
\* What the wheel hands to onSpinEnd.  A prize's label stands for its pair.
Prizes == {[label |-> p, isWin |-> w] : p \in Pairs, w \in BOOLEAN}

\* The form's schema asks for min(2) characters without trimming, so it
\* accepts a name or location of blanks, which the server's trim() rejects.
FormData == {"filled", "blank"}

\* handleFormSubmit.
HandleFormSubmit(data) ==
  /\ ~page.showSpinner
  /\ page' = [page EXCEPT !.userData = data, !.showSpinner = TRUE]
  /\ UNCHANGED <<ledger, tx, pool, wheel, metrics, config>>

\* handleSpinEnd up to its await of fetch: the prize and the modal are set
\* first, then the one fetch of the function is started.  attempts counts
\* the fetch calls of the running handleSpinEnd.
HandleSpinEnd(prize) ==
  /\ page.showSpinner
  /\ page.fetch = "none"
  /\ pc[Client] = "idle"
  /\ IF page.userData # "null"
       THEN /\ page' = [page EXCEPT !.prizeWon = prize, !.showWinModal = TRUE,
                          !.isLoading = TRUE, !.fetch = "sent", !.attempts = 1,
                          !.payload = [label |-> IF page.userData = "blank"
                                                   THEN NoPair ELSE prize.label,
                                       isWin |-> prize.isWin]]
            /\ resp' = [resp EXCEPT ![Client] = NoResp]
       ELSE /\ page' = [page EXCEPT !.prizeWon = prize, !.showWinModal = TRUE]
            /\ UNCHANGED resp
  /\ UNCHANGED <<inv, spin_results, pc, loc, tx, pool, wheel, metrics, config>>

\* The server handles the request the page sent.
ServePage ==
  /\ page.fetch = "sent"
  /\ Fresh(Client)
  /\ \/ \E db \in DbOutcomes : SpinPost(Client, page.payload.label, page.payload.isWin, db)
     \/ TxSpinPost(Client, page.payload.label, page.payload.isWin)

\* The title of the destructive toast for a response that is not ok.  A 503
\* is thrown as "Service temporarily unavailable. ...", which holds no "503".
ToastForStatus(status) ==
  IF status = 503 THEN "Service Temporarily Down" ELSE "Saving Error"

\* fetch resolves with the server's response; the rest of handleSpinEnd runs.
FetchSettled ==
  /\ page.fetch = "sent"
  /\ resp[Client].status > 0
  /\ page' = [page EXCEPT !.fetch = "none", !.isLoading = FALSE,
                !.toast = IF resp[Client].status \in 200..299
                            THEN @ ELSE ToastForStatus(resp[Client].status)]
  /\ UNCHANGED <<ledger, tx, pool, wheel, metrics, config>>

\* fetch rejects: the 30 s AbortController fires, or the network fails.
FetchErrors == {"AbortError", "Failed to fetch"}
FetchFailed(error) ==
  /\ page.fetch = "sent"
  /\ page' = [page EXCEPT !.fetch = "none", !.isLoading = FALSE,
                !.toast = IF error = "AbortError" THEN "Connection Timeout"
                          ELSE "Network Error"]
  /\ UNCHANGED <<ledger, tx, pool, wheel, metrics, config>>

\* closeModal, the modal's onClose; the modal is rendered when
\* showWinModal && prizeWon && userData.
CloseModal ==
  /\ page.showWinModal /\ page.prizeWon # NoPrize /\ page.userData # "null"
  /\ page' = [page EXCEPT !.showWinModal = FALSE, !.showSpinner = FALSE,
                !.userData = "null", !.prizeWon = NoPrize]
  /\ UNCHANGED <<ledger, tx, pool, wheel, metrics, config>>

\* A player fills the form, spins, and closes the modal, again and again.
PageNext ==
  \/ \E data \in FormData : HandleFormSubmit(data)
  \/ \E prize \in Prizes : HandleSpinEnd(prize)
  \/ ServePage
  \/ FetchSettled
  \/ \E error \in FetchErrors : FetchFailed(error)
  \/ CloseModal
PageSpec == Init /\ [][PageNext]_vars

(***************************************************************************)
(* The transactional POST /spin-results of the backend's documentation.    *)
(* One run of the handler, step by step: every awaited call of req.db      *)
(* either returns or throws.  The statements of the open transaction are   *)
(* kept in tx (reserved, inserted) and reach the tables at the commit.     *)
(***************************************************************************)
\* What req.db may be: the pool that src/api/server.js injects, or a single
\* connection, on which beginTransaction / commit / rollback exist.
DbKinds == {"pool", "connection"}
Bodies == [valid : BOOLEAN, is_win : BOOLEAN, pair : PairInputs]
Awaited == {"returns", "throws"}

\* The request arrives: const connection = req.db.
TxArrive(db, body) ==
  /\ tx = NoTx
  /\ tx' = [tx EXCEPT !.pc = "begin", !.db = db, !.body = body]
  /\ UNCHANGED <<ledger, page, pool, wheel, metrics, config>>

\* await connection.beginTransaction(), then the validation of the body and
\* the test is_win && product_id.  The pool has no beginTransaction.
TxBegin(outcome) ==
  /\ tx.pc = "begin"
  /\ tx' = IF tx.db = "pool" \/ outcome = "throws"
             THEN [tx EXCEPT !.pc = "catch"]
           ELSE [tx EXCEPT !.begun = TRUE, !.open = TRUE,
                   !.pc = IF ~tx.body.valid THEN "reject"
                          ELSE IF tx.body.is_win /\ tx.body.pair # NoPair THEN "select"
                          ELSE "insert"]
  /\ UNCHANGED <<ledger, page, pool, wheel, metrics, config>>

\* await connection.rollback(); return res.status(400).json(..).
TxReject(outcome) ==
  /\ tx.pc = "reject"
  /\ tx' = IF outcome = "throws"
             THEN [tx EXCEPT !.pc = "catch"]
           ELSE [tx EXCEPT !.pc = "done", !.open = FALSE, !.reserved = FALSE,
                   !.rollbacks = @ + 1, !.responses = @ + 1, !.status = 400]
  /\ UNCHANGED <<ledger, page, pool, wheel, metrics, config>>

\* SELECT available_quantity ... FOR UPDATE and the test of its result.
TxSelect(outcome) ==
  /\ tx.pc = "select"
  /\ tx' = IF outcome = "throws"
             THEN [tx EXCEPT !.pc = "catch"]
           ELSE IF ~inv[tx.body.pair].exists \/ inv[tx.body.pair].available_quantity <= 0
             THEN [tx EXCEPT !.pc = "reject"]
           ELSE [tx EXCEPT !.pc = "update"]
  /\ UNCHANGED <<ledger, page, pool, wheel, metrics, config>>

\* UPDATE ... WHERE ... AND available_quantity > 0 and the affectedRows test.
TxUpdate(outcome) ==
  /\ tx.pc = "update"
  /\ tx' = IF outcome = "throws"
             THEN [tx EXCEPT !.pc = "catch"]
           ELSE IF ~(inv[tx.body.pair].exists /\ inv[tx.body.pair].available_quantity > 0)
             THEN [tx EXCEPT !.pc = "reject"]
           ELSE [tx EXCEPT !.pc = "insert", !.reserved = TRUE]
  /\ UNCHANGED <<ledger, page, pool, wheel, metrics, config>>

\* INSERT INTO spin_results.
TxInsert(outcome) ==
  /\ tx.pc = "insert"
  /\ tx' = IF outcome = "throws"
             THEN [tx EXCEPT !.pc = "catch"]
           ELSE [tx EXCEPT !.pc = "commit", !.inserted = TRUE]
  /\ UNCHANGED <<ledger, page, pool, wheel, metrics, config>>

\* await connection.commit(); res.status(201).json(..).
TxCommit(outcome) ==
  /\ tx.pc = "commit"
  /\ IF outcome = "throws"
       THEN /\ tx' = [tx EXCEPT !.pc = "catch"]
            /\ UNCHANGED <<inv, spin_results>>
     ELSE /\ tx' = [tx EXCEPT !.pc = "done", !.open = FALSE, !.commits = @ + 1,
                      !.responses = @ + 1, !.status = 201]
          /\ inv' = IF tx.reserved
                      THEN [inv EXCEPT ![tx.body.pair].available_quantity = @ - 1,
                                       ![tx.body.pair].distributed_quantity = @ + 1]
                    ELSE inv
          /\ spin_results' = Append(spin_results,
                                    [pair |-> tx.body.pair, is_win |-> tx.body.is_win])
  /\ UNCHANGED <<pc, loc, resp, page, pool, wheel, metrics, config>>

\* catch (err): await connection.rollback(), outside any try, and then the
\* 500.  When the rollback throws (the pool has none; a lost connection
\* rejects it) the handler's promise rejects and no response is sent.
TxCatch(outcome) ==
  /\ tx.pc = "catch"
  /\ tx' = IF tx.db = "pool" \/ outcome = "throws"
             THEN [tx EXCEPT !.pc = "done"]
           ELSE [tx EXCEPT !.pc = "done", !.reserved = FALSE, !.inserted = FALSE,
                   !.rollbacks = IF tx.open THEN @ + 1 ELSE @, !.open = FALSE,
                   !.responses = @ + 1, !.status = 500]
  /\ UNCHANGED <<ledger, page, pool, wheel, metrics, config>>

TxNext ==
  \/ \E db \in DbKinds, body \in Bodies : TxArrive(db, body)
  \/ \E outcome \in Awaited :
       \/ TxBegin(outcome)
       \/ TxReject(outcome)
       \/ TxSelect(outcome)
       \/ TxUpdate(outcome)
       \/ TxInsert(outcome)
       \/ TxCommit(outcome)
       \/ TxCatch(outcome)
TxSpec == Init /\ [][TxNext]_vars

(***************************************************************************)
(* The pool and the spin-results handlers that take a connection from it   *)
(* through Promise.race([req.db.getConnection(), 10 s timeout]).           *)
(*   free       connections the pool can hand out                          *)
(*   at[r]      handler r: idle, racing (awaiting the race), holding       *)
(*   abandoned  getConnection calls still pending whose race was lost      *)
(*   lost       connections handed to an abandoned call                    *)
(***************************************************************************)
Routes == {"GET", "POST"}

\* The status of the catch block: GET answers 500 for every error; POST
\* answers 503 when the message holds "timeout" or the code is ECONNREFUSED.
CatchStatus(route, transient) ==
  IF route = "POST" /\ transient THEN 503 ELSE 500

\* The handler reaches connection = await Promise.race([...]).
StartRace(r, route) ==
  /\ pool.at[r] = "idle"
  /\ pool' = [pool EXCEPT !.at[r] = "racing", !.route[r] = route, !.status[r] = 0]
  /\ UNCHANGED <<ledger, page, tx, wheel, metrics, config>>

\* getConnection resolves first: connection is assigned.
PoolGrant(r) ==
  /\ pool.at[r] = "racing"
  /\ pool.free > 0
  /\ pool' = [pool EXCEPT !.at[r] = "holding", !.free = @ - 1]
  /\ UNCHANGED <<ledger, page, tx, wheel, metrics, config>>

\* getConnection rejects first (the server refuses the connection): catch,
\* then finally with connection undefined.
ConnectFails(r) ==
  /\ pool.at[r] = "racing"
  /\ pool' = [pool EXCEPT !.at[r] = "idle",
                !.status[r] = CatchStatus(pool.route[r], TRUE)]
  /\ UNCHANGED <<ledger, page, tx, wheel, metrics, config>>

\* The 10 s timer rejects first: catch, then finally with connection still
\* undefined, so nothing is released; the getConnection call stays pending.
TimeoutFires(r) ==
  /\ pool.at[r] = "racing"
  /\ pool.abandoned < PoolSize
  /\ pool' = [pool EXCEPT !.at[r] = "idle", !.abandoned = @ + 1,
                !.status[r] = CatchStatus(pool.route[r], TRUE)]
  /\ UNCHANGED <<ledger, page, tx, wheel, metrics, config>>

\* A pending getConnection whose race is over resolves: the pool hands out
\* a connection that no variable of any handler refers to.
LateGrant ==
  /\ pool.abandoned > 0
  /\ pool.free > 0
  /\ pool' = [pool EXCEPT !.abandoned = @ - 1, !.free = @ - 1, !.lost = @ + 1]
  /\ UNCHANGED <<ledger, page, tx, wheel, metrics, config>>

\* A pending getConnection whose race is over rejects.
LateFailure ==
  /\ pool.abandoned > 0
  /\ pool' = [pool EXCEPT !.abandoned = @ - 1]
  /\ UNCHANGED <<ledger, page, tx, wheel, metrics, config>>

\* The queries of the handler, its response, and finally
\* if (connection) connection.release().
QueryAndRelease(r, outcome) ==
  /\ pool.at[r] = "holding"
  /\ pool' = [pool EXCEPT !.at[r] = "idle", !.free = @ + 1,
                !.status[r] = IF outcome = "throws" THEN CatchStatus(pool.route[r], FALSE)
                              ELSE IF pool.route[r] = "POST" THEN 201 ELSE 200]
  /\ UNCHANGED <<ledger, page, tx, wheel, metrics, config>>

\* Requests keep arriving at the handlers.
PoolNext ==
  \/ \E r \in Reqs :
       \/ \E route \in Routes : StartRace(r, route)
       \/ PoolGrant(r)
       \/ ConnectFails(r)
       \/ TimeoutFires(r)
       \/ \E outcome \in Awaited : QueryAndRelease(r, outcome)
  \/ LateGrant
  \/ LateFailure
PoolSpec == Init /\ [][PoolNext]_vars

(***************************************************************************)
(* GET /prize-distribution/current-wheel: the wheel configuration computed *)
(* from the agent's product_inventory rows.  config.products holds the     *)
(* available_quantity of each row, in the order of the SELECT.             *)
(***************************************************************************)
Quantities == {x \in -1..MaxQty : InRange(x)}
ProductLists == UNION {[1..n -> Quantities] : n \in 0..MaxProducts}

\* CASE WHEN available_quantity > 0 THEN true ELSE false END.
ShouldShowOnWheel(available_quantity) == available_quantity > 0
\* products.filter(p => p.available_quantity > 0).
AvailableProducts(products) ==
  SelectSeq(products, LAMBDA available_quantity : available_quantity > 0)
WinSectors(products) == Len(AvailableProducts(products))
\* Math.max(2, winSectors), and the variant that always answers 2.
TryAgainSectorsFixed(winSectors) == 2
TryAgainSectors(winSectors) == IF winSectors > 2 THEN winSectors ELSE 2
TotalSectors(winSectors) == winSectors + TryAgainSectors(winSectors)
\* totalSectors > 0 ? Math.round((winSectors / totalSectors) * 100) : 0.
WinPercentage(winSectors, totalSectors) ==
  IF totalSectors > 0 THEN (200 * winSectors + totalSectors) \div (2 * totalSectors)
  ELSE 0

\* The rows of the agent, and no request answered yet.
ConfigInit ==
  /\ inv = [p \in Pairs |-> NoRow]
  /\ spin_results = <<>>
  /\ pc = [r \in Reqs |-> "idle"]
  /\ loc = [r \in Reqs |-> NoLoc]
  /\ resp = [r \in Reqs |-> NoResp]
  /\ page = NoPage /\ tx = NoTx /\ pool = NoPool
  /\ wheel = NoWheel /\ metrics = NoMetrics
  /\ config \in {[NoConfig EXCEPT !.products = products] : products \in ProductLists}

\* The handler: 400 without agent_id, 500 when a query throws, else the
\* products with their flag and the wheel configuration.
CurrentWheel(agent_id, outcome) ==
  /\ config.status = 0
  /\ config' =
       IF ~agent_id THEN [config EXCEPT !.status = 400]
       ELSE IF outcome = "throws" THEN [config EXCEPT !.status = 500]
       ELSE [config EXCEPT
               !.status = 200,
               !.available_products =
                  [i \in 1..Len(config.products) |->
                     [available_quantity |-> config.products[i],
                      should_show_on_wheel |-> ShouldShowOnWheel(config.products[i])]],
               !.win_sectors = WinSectors(config.products),
               !.try_again_sectors = TryAgainSectors(WinSectors(config.products)),
               !.total_sectors = TotalSectors(WinSectors(config.products)),
               !.win_percentage = WinPercentage(WinSectors(config.products),
                                                TotalSectors(WinSectors(config.products)))]
  /\ UNCHANGED <<ledger, page, tx, pool, wheel, metrics>>

ConfigNext == \E agent_id \in BOOLEAN, outcome \in Awaited : CurrentWheel(agent_id, outcome)
ConfigSpec == ConfigInit /\ [][ConfigNext]_vars

(***************************************************************************)
(* The SpinWheel component and spinWheel of spinWheelUtils.                *)
(*   timers  the spin angles of the setTimeout callbacks still to run      *)
(*   prize   the argument of the last onSpinEnd call                       *)
(***************************************************************************)
wheelSectors ==
  << [label |-> "MAZILA BOTTLES", isWin |-> TRUE],
     [label |-> "TRY AGAIN", isWin |-> FALSE],
     [label |-> "COOKWARE SET", isWin |-> TRUE],
     [label |-> "TRY AGAIN", isWin |-> FALSE],
     [label |-> "COOKING APRON", isWin |-> TRUE],
     [label |-> "TRY AGAIN", isWin |-> FALSE],
     [label |-> "INDUCTION COOKER", isWin |-> TRUE],
     [label |-> "TRY AGAIN", isWin |-> FALSE] >>

\* getFinalSector, on whole degrees; sequences count from 1.
getFinalSector(degrees, sectors) ==
  LET sectorAngle == 360 \div Len(sectors)
      normalizedDegrees == degrees % 360
      sectorIndex == normalizedDegrees \div sectorAngle
      finalIndex == (Len(sectors) - sectorIndex - 1) % Len(sectors)
  IN sectors[finalIndex + 1]

\* spinRevolutions * 360 + Math.floor(Math.random() * 360): five turns and
\* more, ending at the first or the last degree of a sector.
SpinAngles == {5 * 360 + 45 * k + d : k \in 0..7, d \in {0, 44}}

\* handleCanvasReady, called from WheelCanvas's effect once it has drawn.
HandleCanvasReady ==
  /\ wheel.wheelCanvas = "null"
  /\ wheel' = [wheel EXCEPT !.wheelCanvas = "canvas"]
  /\ UNCHANGED <<ledger, page, tx, pool, metrics, config>>

\* handleSpin with spinWheel inlined: a click while isSpinning returns at
\* once; spinWheel without a canvas returns undefined and sets no timer.
HandleSpin(spinAngle) ==
  /\ wheel' = IF wheel.isSpinning THEN wheel
              ELSE IF wheel.wheelCanvas = "null"
                THEN [wheel EXCEPT !.isSpinning = TRUE]
              ELSE [wheel EXCEPT !.isSpinning = TRUE,
                      !.currentRotation = spinAngle,
                      !.timers = Append(@, spinAngle)]
  /\ UNCHANGED <<ledger, page, tx, pool, metrics, config>>

\* The setTimeout callback, 4 s later: onSpinComplete(finalSector), which
\* is handleSpinComplete: onSpinEnd(..), setIsSpinning(false).
TimerFires ==
  /\ wheel.timers # <<>>
  /\ wheel' = [wheel EXCEPT
                 !.timers = Tail(@),
                 !.prize = getFinalSector(Head(wheel.timers), wheelSectors),
                 !.isSpinning = FALSE]
  /\ UNCHANGED <<ledger, page, tx, pool, metrics, config>>

WheelNext ==
  \/ HandleCanvasReady
  \/ \E spinAngle \in SpinAngles : HandleSpin(spinAngle)
  \/ TimerFires
WheelSpec == Init /\ [][WheelNext]_vars
\* The event loop runs every timer callback that is due, and React runs the
\* effect of a mounted WheelCanvas.
WheelFairSpec == WheelSpec /\ WF_vars(TimerFires) /\ WF_vars(HandleCanvasReady)

(***************************************************************************)
(* The hourly metrics processor.  A Date is a day number and an hour of    *)
(* that day; metrics.stored holds the (date, hour) keys of the documents   *)
(* of the metrics collection, for one service and endpoint.                *)
(***************************************************************************)
Hours == 0..23
Clock == [day : 1..MaxDays, hour : Hours]

\* date.getTime() in hours, and new Date(time).
getTime(date) == date.day * 24 + date.hour
DateOf(time) == [day |-> time \div 24, hour |-> time % 24]

\* What Log.find yields: documents of the previous hour, none, or an error.
LogOutcomes == {"some", "none", "throws"}

\* processHourlyMetrics with processMetricsForGroup: the upsert is keyed by
\* the day of previousHour and by currentHour.getHours() - 1.  Updates run
\* no schema validators, so min: 0 of the schema does not reject the hour.
ProcessHourlyMetrics(logs) ==
  LET currentHour == metrics.now
      previousHour == DateOf(getTime(currentHour) - 1)
      hour == currentHour.hour - 1
      key == [date |-> previousHour.day, hour |-> hour]
  IN /\ logs = "some" => (key \in metrics.stored \/ Cardinality(metrics.stored) < MaxBuckets)
     /\ metrics' = IF logs = "some"
                     THEN [metrics EXCEPT !.stored = @ \cup {key}]
                   ELSE metrics
     /\ UNCHANGED <<ledger, page, tx, pool, wheel, config>>

\* An hour passes.
Tick ==
  /\ getTime(metrics.now) + 1 < (MaxDays + 1) * 24
  /\ metrics' = [metrics EXCEPT !.now = DateOf(getTime(metrics.now) + 1)]
  /\ UNCHANGED <<ledger, page, tx, pool, wheel, config>>

\* The server starts at any hour with an empty collection.
MetricsInit ==
  /\ inv = [p \in Pairs |-> NoRow]
  /\ spin_results = <<>>
  /\ pc = [r \in Reqs |-> "idle"]
  /\ loc = [r \in Reqs |-> NoLoc]
  /\ resp = [r \in Reqs |-> NoResp]
  /\ page = NoPage /\ tx = NoTx /\ pool = NoPool
  /\ wheel = NoWheel /\ config = NoConfig
  /\ metrics \in {[NoMetrics EXCEPT !.now = now] : now \in Clock}

MetricsNext ==
  \/ \E logs \in LogOutcomes : ProcessHourlyMetrics(logs)
  \/ Tick
MetricsSpec == MetricsInit /\ [][MetricsNext]_vars

(***************************************************************************)
(* Properties.                                                             *)
(***************************************************************************)
\* The spin_results rows recorded as a win of pair p.
WinRows(rows, p) ==
  Cardinality({i \in 1..Len(rows) : rows[i].pair = p /\ rows[i].is_win})

\* The handlers whose POST /spin-results for pair p was answered with status.
SpinAnswered(p, status) ==
  {r \in Reqs : /\ resp[r].op \in {"spin", "tx_spin"}
                /\ resp[r].pair = p
                /\ resp[r].status = status}

\* The handlers whose POST /inventory/distribute for pair p succeeded.
DistributeSucceeded(p) ==
  {r \in Reqs : resp[r] = Response("distribute", p, 200, "success")}

\* The row with one unit moved from available to distributed.
OneUnitReserved(row) ==
  [row EXCEPT !.available_quantity = @ - 1, !.distributed_quantity = @ + 1]

\* C1: M > N concurrent winning POST /spin-results on a record with
\* available_quantity = N end with exactly N answered 201 and M - N answered
\* 'No prize available'; the successes never exceed N.  (Under RaceSpec a
\* record starts with available_quantity = total_quantity, which no reserve
\* request changes, and the M requests are those of the NumReqs handlers.)
C1_ExactlyNSucceed ==
  \A p \in Pairs :
    inv[p].exists =>
      /\ Cardinality(SpinAnswered(p, 201)) <= inv[p].total_quantity
      /\ ( /\ NumReqs > inv[p].total_quantity
           /\ \A r \in Reqs : resp[r].op \in {"spin", "tx_spin"} /\ resp[r].pair = p )
         => /\ Cardinality(SpinAnswered(p, 201)) = inv[p].total_quantity
            /\ Cardinality(SpinAnswered(p, 400)) = NumReqs - inv[p].total_quantity

\* C2: of the concurrent single-unit POST /inventory/distribute calls on a
\* record that holds one unit, at most one returns success.
C2_NotBothSucceed ==
  \A p \in Pairs :
    (inv[p].exists /\ inv[p].total_quantity = 1)
      => Cardinality(DistributeSucceeded(p)) <= 1

\* C3: after every operation of a sequential run, every record has
\* total_quantity = available_quantity + distributed_quantity with
\* available_quantity >= 0 and distributed_quantity >= 0.
C3_LedgerInvariant ==
  \A p \in Pairs :
    inv[p].exists =>
      /\ inv[p].total_quantity = inv[p].available_quantity + inv[p].distributed_quantity
      /\ inv[p].available_quantity >= 0
      /\ inv[p].distributed_quantity >= 0

\* C4: the wins recorded in spin_results for a pair never exceed the
\* total_quantity allocated to the pair (nothing, when it has no record).
C4_WinsWithinAllocation ==
  \A p \in Pairs :
    WinRows(spin_results, p) <= (IF inv[p].exists THEN inv[p].total_quantity ELSE 0)

\* A single-unit reserve request for pair p is answered at this step of the
\* sequential client: a distribute of one unit, or a winning spin result
\* whose database calls do not fail.
ReserveAnswered(p) ==
  \/ DistributeSelect(Client, p, undefined) /\ pc'[Client] = "idle"
  \/ DistributeUpdate(Client) /\ loc[Client].pair = p /\ loc[Client].quantity = Some(1)
  \/ SpinPost(Client, p, TRUE, "ok")
  \/ TxSpinPost(Client, p, TRUE)

ReserveGranted(response) ==
  \/ response.op = "distribute" /\ response.status = 200
  \/ response.op \in {"spin", "tx_spin"} /\ response.status = 201

ReserveRejected(response) ==
  \/ response.op = "distribute" /\ response.status = 400
       /\ response.message = "Insufficient stock"
  \/ response.op \in {"spin", "tx_spin"} /\ response.status = 400

\* C5: a reserve request on a record with available_quantity = 1 succeeds
\* and leaves available_quantity = 0, and a reserve request on a record with
\* available_quantity = 0 (the one that follows) is rejected.
C5_LastUnitOnce ==
  [][\A p \in Pairs :
       (ReserveAnswered(p) /\ inv[p].exists) =>
         /\ inv[p].available_quantity = 1 =>
              (ReserveGranted(resp'[Client]) /\ inv'[p].available_quantity = 0)
         /\ inv[p].available_quantity = 0 =>
              (ReserveRejected(resp'[Client]) /\ inv'[p].available_quantity = 0)]_vars

\* C6: a reserve request made when the record's available_quantity is <= 0
\* (for /inventory/distribute: below the quantity asked for) is answered
\* with the insufficient-stock rejection at once, and the step changes no
\* product_inventory row and no spin_results row.
C6_RejectionChangesNothing ==
  [][\A r \in Reqs, p \in Pairs :
       /\ \A q \in QuantityInputs :
            ( /\ DistributeSelect(r, p, q)
              /\ inv[p].exists
              /\ inv[p].available_quantity < DistributeQuantity(q) )
            => /\ resp'[r] = Response("distribute", p, 400, "Insufficient stock")
               /\ inv' = inv
               /\ spin_results' = spin_results
       /\ ( /\ SpinPost(r, p, TRUE, "ok") \/ TxSpinPost(r, p, TRUE)
            /\ inv[p].exists
            /\ inv[p].available_quantity <= 0 )
          => /\ ReserveRejected(resp'[r])
             /\ inv' = inv
             /\ spin_results' = spin_results]_vars

\* C7: a winning POST /spin-results answered 201 moves exactly one unit of
\* the pair's record from available_quantity to distributed_quantity in that
\* one step and leaves total_quantity unchanged.
C7_WinMovesOneUnit ==
  [][\A r \in Reqs, p \in Pairs :
       ( /\ SpinPost(r, p, TRUE, "ok") \/ TxSpinPost(r, p, TRUE)
         /\ resp'[r].status = 201 )
       => /\ inv[p].exists
          /\ inv'[p] = OneUnitReserved(inv[p])]_vars

\* C8: in a winning POST /spin-results the spin_results insert and the
\* inventory decrement take effect together or not at all, and a request
\* whose database call fails is answered 5xx with nothing persisted.
C8_InsertAndDecrementTogether ==
  [][\A r \in Reqs, p \in Pairs, db \in DbOutcomes :
       SpinPost(r, p, TRUE, db) =>
         /\ (spin_results' # spin_results)
              <=> (inv[p].exists /\ inv'[p] = OneUnitReserved(inv[p]))
         /\ db # "ok" =>
              /\ resp'[r].status \in {500, 503}
              /\ inv' = inv /\ spin_results' = spin_results]_vars

\* C9: a restock of a positive quantity adds it to total_quantity and
\* available_quantity and leaves distributed_quantity alone; and the restock
\* that follows a well-formed assign of the same pair finds the record the
\* assign left (assign 10, restock 5 gives 15 / 15 / 0).
C9_AssignThenRestock ==
  [][\A p \in Pairs, q \in QuantityInputs :
       /\ ( /\ RestockUpdate(Client)
            /\ loc[Client].pair = p /\ loc[Client].quantity = q
            /\ Val(q) > 0 )
          => inv'[p] = [inv[p] EXCEPT !.total_quantity = @ + Val(q),
                                      !.available_quantity = @ + Val(q)]
       /\ ( /\ resp[Client].op = "assign" /\ resp[Client].pair = p
            /\ resp[Client].message # "All fields are required"
            /\ q # undefined /\ Val(q) > 0
            /\ RestockSelect(Client, p, q) )
          => /\ inv[p].exists
             /\ resp'[Client].status # 404]_vars

\* C10: POST /inventory/restock answers a quantity that is missing, zero
\* or negative with an error and carries out no restock of such a quantity.
C10_RestockRejectsNonPositive ==
  [][\A r \in Reqs, p \in Pairs, q \in QuantityInputs :
       /\ (RestockSelect(r, p, q) /\ (q = undefined \/ Val(q) <= 0))
            => (resp'[r].status >= 400 /\ pc'[r] = "idle" /\ inv' = inv)
       /\ (RestockUpdate(r) /\ loc[r].quantity = q) => Val(q) > 0]_vars

\* C12: a well-formed POST /inventory for a pair that has a record is
\* answered 400 'Inventory item already exists' at its existence check, and
\* that step leaves every stored row as it was.
C12_DuplicateAssignRejected ==
  [][\A r \in Reqs, p \in Pairs, tq \in PutInputs :
       ( /\ AssignCheck(r, p, tq)
         /\ ~Falsy(tq)
         /\ inv[p].exists )
       => /\ resp'[r] = Response("assign", p, 400, "Inventory item already exists")
          /\ pc'[r] = "idle"
          /\ inv' = inv]_vars

\* C12 witness: an assign was rejected as a duplicate of an existing record.
C12_Witness ==
  \E r \in Reqs, p \in Pairs :
    /\ resp[r] = Response("assign", p, 400, "Inventory item already exists")
    /\ inv[p].exists

\* C13: the INSERT of a well-formed POST /inventory for a pair without a
\* record creates the record with total_quantity = available_quantity = the
\* given quantity and distributed_quantity = 0, and the request is answered
\* 201.
C13_AssignCreatesRecord ==
  [][\A r \in Reqs, p \in Pairs :
       ( /\ AssignInsert(r)
         /\ loc[r].pair = p
         /\ ~inv[p].exists )
       => /\ inv'[p] = Row(Val(loc[r].total_quantity), Val(loc[r].total_quantity), 0)
          /\ resp'[r].status = 201]_vars

OnlyThese(r1, r2) ==
  \A r \in Reqs \ {r1, r2} : Fresh(r)

\* What a record provisioned as t / t / 0 holds after a restock of d and one
\* single-unit reservation, run one after the other in either order.
RestockReserveOutcomes ==
  {Row(t + d, t + d - 1, 1) : t \in 0..MaxQty, d \in 1..MaxQty}

\* C11: once a restock of a positive delta and a single-unit distribute on
\* the same record have both succeeded, whatever their interleaving, the
\* record is what the two give one after the other: total = T + delta,
\* available = A + delta - 1, distributed = D + 1.
C11_RestockReserveCommute ==
  \A p \in Pairs, r1 \in Reqs, r2 \in Reqs :
    ( /\ resp[r1] = Response("restock", p, 200, "success")
      /\ resp[r2] = Response("distribute", p, 200, "success")
      /\ OnlyThese(r1, r2) )
    => inv[p] \in RestockReserveOutcomes

\* C17: once an adjust and a reservation or restock on the same record have
\* both succeeded, whatever their interleaving, the record still has
\* total_quantity = available_quantity + distributed_quantity (as it has
\* after either serial order of the two).
C17_AdjustRaceKeepsLedger ==
  \A p \in Pairs, r1 \in Reqs, r2 \in Reqs :
    ( /\ resp[r1] = Response("adjust", p, 200, "updated")
      /\ resp[r2] \in {Response("distribute", p, 200, "success"),
                        Response("restock", p, 200, "success")}
      /\ OnlyThese(r1, r2) )
    => inv[p].total_quantity
         = inv[p].available_quantity + inv[p].distributed_quantity

\* C15: a PUT /inventory/:id that sets available_quantity stores it and
\* stores distributed_quantity = total_quantity - available_quantity, the
\* total being the one in effect after the update (the body's when it gives
\* one, the stored one otherwise); 20 / 15 / 5 with available 10 gives 10.
C15_AdjustRecomputesDistributed ==
  [][\A p \in Pairs :
       ( /\ PutUpdate(Client)
         /\ loc[Client].pair = p
         /\ loc[Client].available_quantity # undefined )
       => /\ inv'[p].available_quantity = Val(loc[Client].available_quantity)
          /\ inv'[p].distributed_quantity
               = inv'[p].total_quantity - inv'[p].available_quantity]_vars

\* A PUT body that would store a negative quantity in the row given.
NegativeAdjust(row, tq, aq) ==
  \/ tq # undefined /\ Val(tq) < 0
  \/ aq # undefined /\ Val(aq) < 0
  \/ aq # undefined
       /\ Val(aq) > (IF tq # undefined THEN Val(tq) ELSE row.total_quantity)

\* C16: a PUT /inventory/:id whose body would store a negative total,
\* available or distributed quantity is answered 400 on arrival and changes
\* no stored row, and a POST /inventory with a negative total_quantity ends
\* in an error without a row written.
C16_NegativeInputsRejected ==
  [][\A r \in Reqs, p \in Pairs, tq \in PutInputs :
       /\ \A aq \in PutInputs, meta \in BOOLEAN :
            ( /\ PutSelect(r, p, tq, aq, meta)
              /\ inv[p].exists
              /\ NegativeAdjust(inv[p], tq, aq) )
            => (resp'[r].status = 400 /\ pc'[r] = "idle" /\ inv' = inv)
       /\ ( /\ AssignInsert(r)
            /\ loc[r].pair = p /\ loc[r].total_quantity = tq
            /\ Val(tq) < 0 )
          => (resp'[r].status >= 400 /\ inv' = inv)]_vars

\* C18: a winning POST /spin-results for a pair with a record is answered
\* 400 'No prize available' exactly when the record has no unit available,
\* and 201 exactly when it has one, which the request then reserves.
C18_SpinResponseMatchesReservation ==
  [][\A r \in Reqs, p \in Pairs :
       ( /\ SpinPost(r, p, TRUE, "ok") \/ TxSpinPost(r, p, TRUE)
         /\ inv[p].exists )
       => /\ (resp'[r].status = 400 /\ resp'[r].message = "No prize available")
               <=> inv[p].available_quantity <= 0
          /\ resp'[r].status = 201
               <=> ( /\ inv[p].available_quantity > 0
                     /\ inv'[p] = OneUnitReserved(inv[p]) )]_vars

\* The request of handler r is answered 404 and nothing stored changes.
NotFound(r) ==
  /\ resp'[r].status = 404
  /\ pc'[r] = "idle"
  /\ inv' = inv
  /\ spin_results' = spin_results

\* C19: a well-formed reserve (distribute or winning spin result), restock
\* or adjust request for a pair without a record is answered 404, not the
\* insufficient-stock 400, and changes nothing.
C19_MissingRecordIsNotFound ==
  [][\A r \in Reqs, p \in Pairs :
       ~inv[p].exists =>
         /\ \A q \in QuantityInputs :
              /\ DistributeSelect(r, p, q) => NotFound(r)
              /\ (RestockSelect(r, p, q) /\ ~RestockRejected(p, q)) => NotFound(r)
         /\ \A tq \in PutInputs, aq \in PutInputs, meta \in BOOLEAN :
              PutSelect(r, p, tq, aq, meta) => NotFound(r)
         /\ (SpinPost(r, p, TRUE, "ok") \/ TxSpinPost(r, p, TRUE))
              => NotFound(r)]_vars

\* Handler r holds the answer of a stock check for pair p.
StockChecked(r, p) ==
  resp[r].op = "check-stock" /\ resp[r].pair = p /\ resp[r].status = 200

\* C20: POST /inventory/check-stock changes no row; it answers available
\* = true exactly when the pair has a record with available_quantity > 0,
\* with that quantity, and quantity 0 otherwise; and its answer equals the
\* answer of an earlier check of the same pair when no request other than
\* stock checks has run.
C20_CheckStockReadOnly ==
  [][\A r \in Reqs, p \in Pairs :
       CheckStock(r, p) =>
         /\ inv' = inv
         /\ spin_results' = spin_results
         /\ resp'[r].status = 200
         /\ resp'[r].available
              <=> (inv[p].exists /\ inv[p].available_quantity > 0)
         /\ resp'[r].quantity
              = (IF resp'[r].available THEN inv[p].available_quantity ELSE 0)
         /\ \A r1 \in Reqs \ {r} :
              ( /\ StockChecked(r1, p)
                /\ \A o \in Reqs \ {r, r1} :
                     Fresh(o) \/ \E po \in Pairs : StockChecked(o, po) )
              => resp'[r] = resp[r1]]_vars

\* C20 witness: two stock checks of a pair that has units to give have both
\* been answered available.
C20_Witness ==
  \E r1 \in Reqs, r2 \in Reqs, p \in Pairs :
    /\ r1 # r2
    /\ StockChecked(r1, p) /\ StockChecked(r2, p)
    /\ resp[r1].available /\ resp[r2].available
    /\ inv[p].available_quantity > 0

\* Handler r takes a step of a reserve, restock or adjust request on pair p.
StepOn(r, p) ==
  \/ DistributeSelect(r, p, undefined)
  \/ \E q \in PositiveQuantities : RestockSelect(r, p, q)
  \/ \E tq \in AdjustTotals, aq \in AdjustAvailables \cup {undefined} :
       PutSelect(r, p, tq, aq, TRUE)
  \/ SpinPost(r, p, TRUE, "ok")
  \/ (DistributeUpdate(r) \/ RestockUpdate(r) \/ PutUpdate(r)) /\ loc[r].pair = p

\* C21: a step of a reserve, restock or adjust request on one record leaves
\* every other record as it was, and what a distribute decides depends on
\* its own record alone: it is rejected exactly when that record's
\* available_quantity is below the quantity asked for.
C21_OtherRecordsUntouched ==
  [][\A r \in Reqs, p \in Pairs :
       StepOn(r, p) =>
         /\ \A o \in Pairs \ {p} : inv'[o] = inv[o]
         /\ DistributeSelect(r, p, undefined)
              => (resp'[r] = Response("distribute", p, 400, "Insufficient stock")
                    <=> inv[p].available_quantity < 1)]_vars

\* C21 witness: a distribute on one record has succeeded and changed it
\* while the other record, untouched, still has nothing distributed.
C21_Witness ==
  \E r \in Reqs, p \in Pairs, o \in Pairs :
    /\ o # p
    /\ resp[r] = Response("distribute", p, 200, "success")
    /\ inv[p].distributed_quantity = 1
    /\ inv[o].exists /\ inv[o].distributed_quantity = 0
    /\ inv[o].available_quantity = inv[o].total_quantity

\* The units granted for pair p: one per successful single-unit reserve.
Granted(p) ==
  Cardinality(DistributeSucceeded(p)) + Cardinality(SpinAnswered(p, 201))

\* C24: while no adjust has been made, the distributed_quantity of a record
\* provisioned with nothing distributed equals the number of units granted
\* by the successful reserve responses, whatever the interleaving of the
\* reserve and restock requests.
C24_DistributedCountsGrants ==
  (\A r \in Reqs : resp[r].op # "adjust" /\ pc[r] # "put_update")
    => \A p \in Pairs :
         inv[p].exists => inv[p].distributed_quantity = Granted(p)

\* C25: a POST /inventory/distribute never raises available_quantity and
\* never lowers distributed_quantity, and a body with a zero or negative
\* quantity is not carried through to the UPDATE.
C25_DistributeMonotone ==
  [][\A p \in Pairs :
       ( /\ DistributeUpdate(Client)
         /\ loc[Client].pair = p )
       => /\ inv'[p].available_quantity <= inv[p].available_quantity
          /\ inv'[p].distributed_quantity >= inv[p].distributed_quantity
          /\ Val(loc[Client].quantity) > 0]_vars


\* The outcomes of the POST that the page may see as transient: a 5xx
\* answer, the 30 s abort, a network failure.
TransientFailure ==
  \/ FetchSettled /\ resp[Client].status \in {500, 503}
  \/ \E error \in FetchErrors : FetchFailed(error)

\* C22: the page reports a transient failure of the POST to the player only
\* after it has retried the request at least once, and a 400 rejection is
\* reported without another fetch being started.
C22_TransientErrorsRetried ==
  [][/\ TransientFailure => page.attempts > 1
     /\ (FetchSettled /\ resp[Client].status = 400) => page'.fetch = "none"]_vars

\* C23: once the server has rejected the POST of a winning prize with a
\* 400, the page does not show the winner modal for that prize.
C23_WinModalOnlyIfAccepted ==
  (page.fetch = "none" /\ resp[Client].status = 400 /\ page.prizeWon.isWin)
    => ~page.showWinModal

C27_ConnectionsReleased ==
  /\ pool.lost = 0
  /\ pool.free + Cardinality({r \in Reqs : pool.at[r] = "holding"}) = PoolSize

\* C28: in a 200 answer of current-wheel a product is flagged
\* should_show_on_wheel exactly when its available_quantity is positive,
\* win_sectors counts the flagged products, try_again_sectors is the larger
\* of 2 and win_sectors, total_sectors is their sum, and the win sectors are
\* at most half of the wheel.
C28_WheelConfiguration ==
  config.status = 200 =>
    LET shown == {i \in 1..Len(config.available_products) :
                    config.available_products[i].should_show_on_wheel}
    IN /\ Len(config.available_products) = Len(config.products)
       /\ \A i \in 1..Len(config.products) :
            /\ config.available_products[i].available_quantity = config.products[i]
            /\ i \in shown <=> config.products[i] > 0
       /\ config.win_sectors = Cardinality(shown)
       /\ config.try_again_sectors >= 2
       /\ config.try_again_sectors >= config.win_sectors
       /\ config.try_again_sectors \in {2, config.win_sectors}
       /\ config.total_sectors = config.win_sectors + config.try_again_sectors
       /\ 2 * config.win_sectors <= config.total_sectors
       /\ config.win_percentage <= 50

\* A 200 answer for three stocked products and a depleted one.
C28_Witness ==
  /\ config.status = 200
  /\ config.win_sectors = 3
  /\ config.try_again_sectors = 3
  /\ \E i \in 1..Len(config.products) :
       /\ config.products[i] <= 0
       /\ ~config.available_products[i].should_show_on_wheel

\* C29: at most one spin is in flight, and a wheel that has accepted a spin
\* (isSpinning is true) eventually has isSpinning false again.
C29_SpinEventuallyEnds ==
  /\ [](Len(wheel.timers) <= 1)
  /\ wheel.isSpinning ~> ~wheel.isSpinning

\* The hour before the clock's hour, counted back from the clock's day and
\* hour without Date arithmetic.
PreviousBucket(now) ==
  IF now.hour = 0 THEN [date |-> now.day - 1, hour |-> 23]
  ELSE [date |-> now.day, hour |-> now.hour - 1]

\* C30: a run of processHourlyMetrics that finds logs stores its aggregates
\* under the date and hour of the hour before the current one, and every
\* stored hour is within 0..23.
C30_PreviousHourBucket ==
  [][ProcessHourlyMetrics("some") =>
       /\ metrics'.stored = metrics.stored \cup {PreviousBucket(metrics.now)}
       /\ \A key \in metrics'.stored : key.hour \in Hours]_vars

=============================================================================
